---- MODULE Spec2Model ----
(* Model of the MSI barcode encoder, src/src/sym/msi.rs.                    *)
(* Each slot holds one input text and what MSI::new, MSI::encode_mod10 and  *)
(* MSI::encode returned for it.                                             *)
EXTENDS FiniteSets, Integers, Sequences, TLC

VARIABLES data, enc, check, out

vars == <<data, enc, check, out>>

(* ---------------------------------------------------------------------- *)
(* Bounds of the explored inputs.                                          *)
(* ---------------------------------------------------------------------- *)
MaxHead == 2
MaxPad == 49
MaxPairLen == 2

(* ---------------------------------------------------------------------- *)
(* Program constants.                                                      *)
(* ---------------------------------------------------------------------- *)
LEFT_GUARD == <<1, 1, 0>>

RIGHT_GUARD == <<1, 0, 0, 1>>

ENCODINGS ==
  << <<1, 0, 0, 1, 0, 0, 1, 0, 0, 1, 0, 0>>,
     <<1, 0, 0, 1, 0, 0, 1, 0, 0, 1, 1, 0>>,
     <<1, 0, 0, 1, 0, 0, 1, 1, 0, 1, 0, 0>>,
     <<1, 0, 0, 1, 0, 0, 1, 1, 0, 1, 1, 0>>,
     <<1, 0, 0, 1, 1, 0, 1, 0, 0, 1, 0, 0>>,
     <<1, 0, 0, 1, 1, 0, 1, 0, 0, 1, 1, 0>>,
     <<1, 0, 0, 1, 1, 0, 1, 1, 0, 1, 0, 0>>,
     <<1, 0, 0, 1, 1, 0, 1, 1, 0, 1, 1, 0>>,
     <<1, 1, 0, 1, 0, 0, 1, 0, 0, 1, 0, 0>>,
     <<1, 1, 0, 1, 0, 0, 1, 0, 0, 1, 1, 0>> >>

MOD_10 == 10

U8 == 256

(* 2^16; a u32 is two such halves (2^32 itself is beyond TLC's integers). *)
U16 == 65536

(* x reduced modulo 2^32, and whether x is beyond a u32.                   *)
WrapU32(x) == ((x \div U16) % U16) * U16 + (x % U16)

OverU32(x) == (x \div U16) >= U16

(* ---------------------------------------------------------------------- *)
(* Characters and their conversion to and from digit values.               *)
(* ---------------------------------------------------------------------- *)
(* The characters that carry a digit value, in the order of their value:   *)
(* CharTable[v + 1] is the character of value v.                           *)
CharTable ==
  << "0", "1", "2", "3", "4", "5", "6", "7", "8", "9",
     "a", "b", "c", "d", "e", "f", "g", "h", "i", "j", "k", "l", "m",
     "n", "o", "p", "q", "r", "s", "t", "u", "v", "w", "x", "y", "z" >>

None == [some |-> FALSE]

Some(x) == [some |-> TRUE, v |-> x]

(* char::to_digit(radix): the value of c when c has one below radix.       *)
to_digit(c, radix) ==
  IF \E i \in 1..Len(CharTable) : CharTable[i] = c /\ i - 1 < radix
  THEN Some((CHOOSE i \in 1..Len(CharTable) : CharTable[i] = c) - 1)
  ELSE None

(* char::from_digit(num, radix): the character of value num below radix.   *)
from_digit(num, radix) ==
  IF num < radix THEN Some(CharTable[num + 1]) ELSE None

(* A half-open range start..end as the sequence of its members.            *)
RangeSeq(start, end) ==
  IF end > start THEN [i \in 1..(end - start) |-> start + i - 1] ELSE <<>>

(* ---------------------------------------------------------------------- *)
(* impl Parse for MSI.                                                     *)
(* ---------------------------------------------------------------------- *)
valid_len_wide == [start |-> 1, end |-> 51]

valid_len == [start |-> 1, end |-> 50]

valid_chars_hex ==
  [i \in 1..16 |-> from_digit(RangeSeq(0, 16)[i], 16)]

valid_chars_r36 ==
  [i \in 1..36 |-> from_digit(RangeSeq(0, 36)[i], 36)]

(* (0..9).map(|i| char::from_digit(i, 9).unwrap()): one Option per member  *)
(* of the range; the unwrap is applied where the list is used.             *)
valid_chars ==
  [i \in 1..Len(RangeSeq(0, 9)) |-> from_digit(RangeSeq(0, 9)[i], 9)]

(* The unwrap of valid_chars aborts when a member has no character.        *)
valid_chars_aborts == \E i \in 1..Len(valid_chars) : ~valid_chars[i].some

IsValidChar(c) ==
  \E i \in 1..Len(valid_chars) : valid_chars[i].some /\ valid_chars[i].v = c

(* Parse::parse: the length is checked against valid_len, then every       *)
(* character against valid_chars; the text is returned unchanged.          *)
parse(d) ==
  IF ~(Len(d) >= valid_len.start /\ Len(d) < valid_len.end)
  THEN [tag |-> "Err", kind |-> "InvalidLength"]
  ELSE IF valid_chars_aborts
  THEN [tag |-> "Panic", msg |-> "unwrap on None"]
  ELSE IF \E i \in 1..Len(d) : ~IsValidChar(d[i])
  THEN LET p == CHOOSE i \in 1..Len(d) :
                  /\ ~IsValidChar(d[i])
                  /\ \A j \in 1..(i - 1) : IsValidChar(d[j])
       IN [tag |-> "Err", kind |-> "InvalidCharacter", pos |-> p, ch |-> d[p]]
  ELSE [tag |-> "Ok", v |-> d]

(* ---------------------------------------------------------------------- *)
(* impl MSI.                                                               *)
(* ---------------------------------------------------------------------- *)
(* MSI::new: parse, then each character through to_digit(10) with expect.  *)
new(d) ==
  LET p == parse(d)
  IN IF p.tag # "Ok" THEN p
     ELSE IF \E i \in 1..Len(p.v) : ~to_digit(p.v[i], 10).some
     THEN [tag |-> "Panic", msg |-> "Unknown character"]
     ELSE [tag |-> "Ok",
           v |-> [i \in 1..Len(p.v) |-> to_digit(p.v[i], 10).v % U8]]

Fold_nofold(multi_2) == multi_2 % MOD_10

(* multi_2 / MOD_10 + multi_2 % MOD_10: the digit sum of the doubled digit. *)
Fold(multi_2) == (multi_2 \div MOD_10) + (multi_2 % MOD_10)

(* The term one digit adds to the running sum; i is the 0-based index.     *)
Term(digits, i) ==
  IF i % 2 = 0
  THEN Fold((digits[i + 1] * 2) % U8)
  ELSE digits[i + 1]

(* The loop of encode_mod10 over i = k - 1, k - 2, ..., 0 starting from    *)
(* the running sum s; ovf records an overflow of the u8 or u32 arithmetic. *)
RECURSIVE Mod10Loop(_, _, _, _)
Mod10Loop(digits, k, s, ovf) ==
  IF k = 0 THEN [sum |-> s, overflow |-> ovf]
  ELSE LET i == k - 1
           t == Term(digits, i)
           o == \/ (i % 2 = 0 /\ digits[i + 1] * 2 >= U8)
                \/ OverU32(s + t)
       IN Mod10Loop(digits, i, WrapU32(s + t), ovf \/ o)

encode_mod10_wrap(digits) ==
  LET r == Mod10Loop(digits, Len(digits), 0, FALSE)
  IN [tag |-> "Some", v |-> (MOD_10 - (r.sum % MOD_10)) % MOD_10,
      sum |-> r.sum, overflow |-> r.overflow]

encode_mod10(digits) ==
  LET r == Mod10Loop(digits, Len(digits), 0, FALSE)
  IN [tag |-> "Some", v |-> MOD_10 - (r.sum % MOD_10),
      sum |-> r.sum, overflow |-> r.overflow]

(* helpers::join_slices: the slices one after the other, in order.         *)
RECURSIVE join_slices(_)
join_slices(slices) ==
  IF slices = <<>> THEN <<>>
  ELSE Head(slices) \o join_slices(Tail(slices))

(* The payload loop of encode: extend_from_slice per stored digit.         *)
RECURSIVE Payload(_, _, _)
Payload(digits, k, acc) ==
  IF k > Len(digits) THEN acc
  ELSE Payload(digits, k + 1, acc \o ENCODINGS[digits[k] + 1])

(* An index into ENCODINGS is in bounds when below the table's length.     *)
InTable(b) == b < Len(ENCODINGS)

encode_swapped(digits) ==
  LET c == encode_mod10(digits).v
  IN IF (\E k \in 1..Len(digits) : ~InTable(digits[k])) \/ ~InTable(c)
     THEN [tag |-> "Panic", msg |-> "index out of bounds"]
     ELSE [tag |-> "Ok",
           v |-> join_slices(<<LEFT_GUARD, ENCODINGS[c + 1],
                               Payload(digits, 1, <<>>), RIGHT_GUARD>>)]

encode(digits) ==
  LET c == encode_mod10(digits).v
  IN IF (\E k \in 1..Len(digits) : ~InTable(digits[k])) \/ ~InTable(c)
     THEN [tag |-> "Panic", msg |-> "index out of bounds"]
     ELSE [tag |-> "Ok",
           v |-> join_slices(<<LEFT_GUARD, Payload(digits, 1, <<>>),
                               ENCODINGS[c + 1], RIGHT_GUARD>>)]

(* ---------------------------------------------------------------------- *)
(* Input texts.                                                            *)
(* ---------------------------------------------------------------------- *)
DigitChars == {"0", "1", "2", "3", "4", "5", "6", "7", "8", "9"}

Chars == DigitChars \cup {"a"}

PadChars == {"3", "a"}

Rep(c, k) == [i \in 1..k |-> c]

Texts(alphabet, n) == UNION {[1..k -> alphabet] : k \in 0..n}

(* A short text over Chars followed by a run of one character.             *)
Inputs ==
  {h \o Rep(p, k) : h \in Texts(Chars, MaxHead), p \in PadChars, k \in 0..MaxPad}

(* Two digit texts of the same length that differ in exactly one place.    *)
PairInputs ==
  {<<a, [a EXCEPT ![p] = c]>> :
     a \in Texts(DigitChars, MaxPairLen) \ {<<>>},
     p \in 1..MaxPairLen, c \in DigitChars}

Slots == {1, 2}

NotYet == [tag |-> "None"]

(* ---------------------------------------------------------------------- *)
(* State machine.                                                          *)
(* ---------------------------------------------------------------------- *)
Init ==
  /\ \E t \in Inputs : data = [k \in Slots |-> IF k = 1 THEN t ELSE <<>>]
  /\ enc = [k \in Slots |-> NotYet]
  /\ check = [k \in Slots |-> NotYet]
  /\ out = [k \in Slots |-> NotYet]

InitPair ==
  /\ \E pr \in PairInputs :
        /\ pr[1] # pr[2]
        /\ Len(pr[1]) = Len(pr[2])
        /\ data = [k \in Slots |-> pr[k]]
  /\ enc = [k \in Slots |-> NotYet]
  /\ check = [k \in Slots |-> NotYet]
  /\ out = [k \in Slots |-> NotYet]

New(k) ==
  /\ enc[k] = NotYet
  /\ enc' = [enc EXCEPT ![k] = new(data[k])]
  /\ UNCHANGED <<data, check, out>>

EncodeMod10(k) ==
  /\ enc[k].tag = "Ok"
  /\ check[k] = NotYet
  /\ check' = [check EXCEPT ![k] = encode_mod10(enc[k].v)]
  /\ UNCHANGED <<data, enc, out>>

Encode(k) ==
  /\ enc[k].tag = "Ok"
  /\ out[k] = NotYet
  /\ out' = [out EXCEPT ![k] = encode(enc[k].v)]
  /\ UNCHANGED <<data, enc, check>>

Next ==
  \/ New(1)
  \/ EncodeMod10(1)
  \/ Encode(1)

NextPair ==
  \/ \E k \in Slots : New(k)
  \/ \E k \in Slots : EncodeMod10(k)

Spec == Init /\ [][Next]_vars

SpecPair == InitPair /\ [][NextPair]_vars

(* ---------------------------------------------------------------------- *)
(* Properties.                                                             *)
(* ---------------------------------------------------------------------- *)

(* C1: for every encoder MSI::new returned, encode() returns a module      *)
(* sequence; it never aborts, the check digit always indexes ENCODINGS.    *)
C1_EncodeInfallible ==
  \A k \in Slots : out[k] # NotYet => out[k].tag = "Ok"

(* C2: every text of 1 to 49 characters, all among '0'..'9', is accepted   *)
(* by MSI::new, which stores the numeric value of each character.          *)
C2_DigitsAccepted ==
  \A k \in Slots :
    (/\ enc[k] # NotYet
     /\ Len(data[k]) >= 1 /\ Len(data[k]) <= 49
     /\ \A i \in 1..Len(data[k]) : data[k][i] \in DigitChars)
    => /\ enc[k].tag = "Ok"
       /\ Len(enc[k].v) = Len(data[k])
       /\ \A i \in 1..Len(data[k]) :
            /\ enc[k].v[i] \in 0..9
            /\ CharTable[enc[k].v[i] + 1] = data[k][i]

(* C3: the check digit is 10 - (S mod 10), S the sum over the digits of    *)
(* the folded double of the digit at even distance from the rightmost      *)
(* digit and of the digit itself at odd distance; "01" gives 8.            *)
C3_CheckDigitFromRight ==
  \A k \in Slots :
    check[k] # NotYet =>
      LET d == enc[k].v
          n == Len(d)
          W(j) == IF j % 2 = 0
                  THEN ((2 * d[n - j]) \div 10) + ((2 * d[n - j]) % 10)
                  ELSE d[n - j]
          S[j \in 0..n] == IF j = 0 THEN 0 ELSE S[j - 1] + W(j - 1)
      IN /\ check[k].v = 10 - (S[n] % 10)
         /\ (d = <<0, 1>> => check[k].v = 8)

(* C4: for every valid input of n digits the sequence encode() returns     *)
(* has length 3 + 12*n + 12 + 4.                                           *)
C4_EncodeLength ==
  \A k \in Slots :
    out[k] # NotYet =>
      /\ out[k].tag = "Ok"
      /\ Len(out[k].v) = 3 + 12 * Len(enc[k].v) + 12 + 4

(* C5 as stated: every text with a character outside '0'..'9', whatever   *)
(* its length, makes MSI::new fail with InvalidCharacter.                  *)
C5_AnyLength ==
  \A k \in Slots :
    (/\ enc[k] # NotYet
     /\ \E i \in 1..Len(data[k]) : data[k][i] \notin DigitChars)
    => /\ enc[k].tag = "Err"
       /\ enc[k].kind = "InvalidCharacter"

(* C5 amended: every text of 1 to 49 characters with a character outside   *)
(* '0'..'9' makes MSI::new fail with InvalidCharacter; no encoder is built.*)
C5_InvalidCharacter ==
  \A k \in Slots :
    (/\ enc[k] # NotYet
     /\ Len(data[k]) >= 1 /\ Len(data[k]) <= 49
     /\ \E i \in 1..Len(data[k]) : data[k][i] \notin DigitChars)
    => /\ enc[k].tag = "Err"
       /\ enc[k].kind = "InvalidCharacter"

C5_Witness ==
  /\ Len(data[1]) = 49
  /\ data[1][1] \in DigitChars
  /\ data[1][49] \notin DigitChars
  /\ enc[1].tag = "Err"
  /\ enc[1].kind = "InvalidCharacter"

(* C6: every text of length 0 or of length 50 or more makes MSI::new fail  *)
(* with InvalidLength; no encoder is built; so does the empty text.        *)
C6_InvalidLength ==
  \A k \in Slots :
    (/\ enc[k] # NotYet
     /\ (Len(data[k]) = 0 \/ Len(data[k]) >= 50))
    => /\ enc[k].tag = "Err"
       /\ enc[k].kind = "InvalidLength"

C6_Witness ==
  /\ Len(data[1]) = 50
  /\ \A i \in 1..50 : data[1][i] \in DigitChars \ {"9"}
  /\ enc[1].tag = "Err"
  /\ enc[1].kind = "InvalidLength"

(* C7: MSI::new returns an encoder or one of InvalidLength and             *)
(* InvalidCharacter; the expect("Unknown character") abort is never        *)
(* reached: every character of valid_chars() has a digit value in base 10. *)
C7_NoAbortInNew ==
  /\ \A k \in Slots :
       enc[k] # NotYet =>
         \/ enc[k].tag = "Ok"
         \/ /\ enc[k].tag = "Err"
            /\ enc[k].kind \in {"InvalidLength", "InvalidCharacter"}
  /\ \A i \in 1..Len(valid_chars) :
       valid_chars[i].some => to_digit(valid_chars[i].v, 10).some

C7_Witness ==
  /\ enc[1].tag = "Ok"
  /\ Len(data[1]) = 49
  /\ \E i \in 1..49 : data[1][i] = "8"

(* C8: whenever encode() returns, the result is LEFT_GUARD, then the       *)
(* ENCODINGS pattern of each digit in order, then the pattern of the check *)
(* digit of encode_mod10, then RIGHT_GUARD, with nothing in between; it    *)
(* begins 1,1,0, ends 1,0,0,1 and holds only 0 and 1.                      *)
C8_EncodeLayout ==
  \A k \in Slots :
    out[k].tag = "Ok" =>
      LET d == enc[k].v
          n == Len(d)
          c == encode_mod10(d).v
          o == out[k].v
      IN /\ Len(o) = 3 + 12 * n + 12 + 4
         /\ \A j \in 1..3 : o[j] = LEFT_GUARD[j]
         /\ \A i \in 1..n : \A j \in 1..12 :
              o[3 + 12 * (i - 1) + j] = ENCODINGS[d[i] + 1][j]
         /\ \A j \in 1..12 : o[3 + 12 * n + j] = ENCODINGS[c + 1][j]
         /\ \A j \in 1..4 : o[3 + 12 * n + 12 + j] = RIGHT_GUARD[j]
         /\ <<o[1], o[2], o[3]>> = <<1, 1, 0>>
         /\ <<o[Len(o) - 3], o[Len(o) - 2], o[Len(o) - 1], o[Len(o)]>>
              = <<1, 0, 0, 1>>
         /\ \A j \in 1..Len(o) : o[j] \in {0, 1}

C8_Witness ==
  /\ out[1].tag = "Ok"
  /\ Len(enc[1].v) >= 2
  /\ enc[1].v[1] # enc[1].v[2]

(* C9: encode_mod10() returns a value in 1..10, never 0: 10 exactly when   *)
(* the running sum is a multiple of 10, else 10 minus the sum's last       *)
(* digit; the u8 doubling (at most 18) and the u32 sum never overflow.     *)
C9_CheckDigitRange ==
  \A k \in Slots :
    check[k] # NotYet =>
      /\ check[k].v \in 1..10
      /\ check[k].v # 0
      /\ (check[k].v = 10 <=> check[k].sum % 10 = 0)
      /\ (check[k].sum % 10 # 0 => check[k].v = 10 - (check[k].sum % 10))
      /\ ~check[k].overflow
      /\ \A i \in 1..Len(enc[k].v) : enc[k].v[i] * 2 <= 18
      /\ ~OverU32(check[k].sum)

C9_Witness ==
  /\ check[1] # NotYet
  /\ check[1].v = 10
  /\ check[1].sum > 0
  /\ Len(enc[1].v) = 49

(* C10: two accepted digit sequences of the same length that differ in     *)
(* exactly one position get different check digits; the folded double and  *)
(* the digit itself each take ten distinct residues modulo 10.             *)
C10_SingleDigitError ==
  /\ \A k \in Slots : \A m \in Slots :
       (/\ check[k] # NotYet /\ check[m] # NotYet
        /\ Len(enc[k].v) = Len(enc[m].v)
        /\ Cardinality({i \in 1..Len(enc[k].v) : enc[k].v[i] # enc[m].v[i]}) = 1)
       => check[k].v # check[m].v
  /\ \A a \in 0..9 : \A b \in 0..9 :
       a # b => /\ Fold(2 * a) % 10 # Fold(2 * b) % 10
                /\ a % 10 # b % 10

C10_Witness ==
  /\ check[1] # NotYet /\ check[2] # NotYet
  /\ Len(enc[1].v) = 2
  /\ enc[1].v[1] # enc[2].v[1]
  /\ enc[1].v[2] = enc[2].v[2]

TypeOK ==
  /\ \A k \in Slots : enc[k].tag \in {"None", "Ok", "Err", "Panic"}
  /\ \A k \in Slots : check[k].tag \in {"None", "Some"}
  /\ \A k \in Slots : out[k].tag \in {"None", "Ok", "Panic"}
====
